---- MODULE Spec2Model ----
(***************************************************************************)
(* A model of src/sentence_splitter.py: preprocess_text followed by        *)
(* split_into_sentences, as main() runs them.  A text is a sequence of     *)
(* one-character strings; the Python indices (0-based) keep their values,  *)
(* so paragraph[i] of the source is paragraph[i + 1] here.                 *)
(***************************************************************************)
EXTENDS Integers, Sequences, FiniteSets

VARIABLES raw, abbreviations, text, paragraphs, para_idx, i,
          current_sentence, sentences, pc,
          input_file, abbr_file, output_file, rows, status

vars == <<raw, abbreviations, text, paragraphs, para_idx, i,
          current_sentence, sentences, pc,
          input_file, abbr_file, output_file, rows, status>>

\* What main() sees of the files, the rows it wrote and the status the run
\* ends with (<<>> while it runs).
io == <<input_file, abbr_file, output_file, rows, status>>

----------------------------------------------------------------------------
(* Character classes.                                                      *)

Lower ==
  {"a","b","c","d","e","f","g","h","i","j","k","l","m",
   "n","o","p","q","r","s","t","u","v","w","x","y","z"}

Upper ==
  {"A","B","C","D","E","F","G","H","I","J","K","L","M",
   "N","O","P","Q","R","S","T","U","V","W","X","Y","Z"}

\* [A-Za-z] of the regular expressions, and str.isalpha on these texts.
Letter == Lower \cup Upper

\* \s of the regular expressions, and what str.strip / str.split remove.
Whitespace == {" ", "\n", "\t", "\r", "\f"}

\* char in '.!?'
Terminators == {".", "!", "?"}

\* The character class [PARAGRAPH BREAK] of the lookahead in preprocess_text.
BreakClass == {"P","A","R","G","H"," ","B","E","K"}

MARKER ==
  <<"[","P","A","R","A","G","R","A","P","H"," ","B","R","E","A","K","]">>

----------------------------------------------------------------------------
(* String primitives of Python, on sequences of characters.                *)

Min(a, b) == IF a < b THEN a ELSE b

\* s[lo:hi] for 0 <= lo.
PySlice(s, lo, hi) == SubSeq(s, lo + 1, Min(hi, Len(s)))

\* s.count(c)
Count(s, c) == Cardinality({k \in 1..Len(s) : s[k] = c})

\* The first index >= k of s holding no whitespace, Len(s) + 1 if none.
FirstNonWs(s, k) ==
  IF \E m \in k..Len(s) : s[m] \notin Whitespace
  THEN CHOOSE m \in k..Len(s) :
         /\ s[m] \notin Whitespace
         /\ \A n \in k..(m - 1) : s[n] \in Whitespace
  ELSE Len(s) + 1

\* The last index of s holding no whitespace, 0 if none.
LastNonWs(s) ==
  IF \E m \in 1..Len(s) : s[m] \notin Whitespace
  THEN CHOOSE m \in 1..Len(s) :
         /\ s[m] \notin Whitespace
         /\ \A n \in (m + 1)..Len(s) : s[n] \in Whitespace
  ELSE 0

\* s.lstrip()
LStrip(s) == SubSeq(s, FirstNonWs(s, 1), Len(s))

\* s.strip()
Strip(s) == SubSeq(s, FirstNonWs(s, 1), LastNonWs(s))

\* s.strip().split()[-1], and <<>> when s.strip().split() is empty.
LastWord(s) ==
  LET e == LastNonWs(s)
      b == IF \E m \in 1..e : s[m] \in Whitespace
           THEN 1 + CHOOSE m \in 1..e :
                      /\ s[m] \in Whitespace
                      /\ \A n \in (m + 1)..e : s[n] \notin Whitespace
           ELSE 1
  IN  IF e = 0 THEN <<>> ELSE SubSeq(s, b, e)

\* s.rstrip('.')
RStripPeriods(s) ==
  LET e == IF \E m \in 1..Len(s) : s[m] # "."
           THEN CHOOSE m \in 1..Len(s) :
                  /\ s[m] # "."
                  /\ \A n \in (m + 1)..Len(s) : s[n] = "."
           ELSE 0
  IN  SubSeq(s, 1, e)

\* s.split(sep): the pieces between the occurrences of sep, left to right.
RECURSIVE SplitFrom(_, _, _, _)
SplitFrom(s, sep, k, start) ==
  IF k + Len(sep) - 1 > Len(s)
  THEN << SubSeq(s, start, Len(s)) >>
  ELSE IF SubSeq(s, k, k + Len(sep) - 1) = sep
       THEN << SubSeq(s, start, k - 1) >>
              \o SplitFrom(s, sep, k + Len(sep), k + Len(sep))
       ELSE SplitFrom(s, sep, k + 1, start)

Split(s, sep) == SplitFrom(s, sep, 1, 1)

----------------------------------------------------------------------------
(* The regular expressions.  '.' matches any character but a newline.      *)

AnyChar(c) == c # "\n"

\* w[k..] is one or more groups [A-Za-z]+. reaching the end of w.
RECURSIVE GroupsFrom(_, _)
GroupsFrom(w, k) ==
  \E j \in (k + 1)..Len(w) :
    /\ \A m \in k..(j - 1) : w[m] \in Letter
    /\ AnyChar(w[j])
    /\ (j = Len(w) \/ GroupsFrom(w, j + 1))

\* re.match(r'^([A-Za-z]+.)([A-Za-z]+.)+$', w): the periods are unescaped.
MatchMultiPart(w) ==
  \E j \in 2..(Len(w) - 1) :
    /\ \A m \in 1..(j - 1) : w[m] \in Letter
    /\ AnyChar(w[j])
    /\ GroupsFrom(w, j + 1)

\* re.match(r'^([A-Za-z].)([A-Za-z].)+$', w)
MatchLetterPairs(w) ==
  /\ Len(w) >= 4
  /\ Len(w) % 2 = 0
  /\ \A m \in 1..Len(w) :
       IF m % 2 = 1 THEN w[m] \in Letter ELSE AnyChar(w[m])

\* re.match(r'^\s*[A-Z]', s)
MatchUpperStart(s) ==
  LET k == FirstNonWs(s, 1)
  IN  k <= Len(s) /\ s[k] \in Upper

\* re.search(r'^\s*"[^"]+[.!?]"\s*[a-z]', s): anchored at the start of s.
SearchDialogue(s) ==
  LET a == FirstNonWs(s, 1)
  IN  /\ a <= Len(s)
      /\ s[a] = "\""
      /\ \E q \in (a + 3)..Len(s) :
           /\ s[q] = "\""
           /\ \A m \in (a + 1)..(q - 1) : s[m] # "\""
           /\ s[q - 1] \in Terminators
           /\ LET b == FirstNonWs(s, q + 1)
              IN  b <= Len(s) /\ s[b] \in Lower

----------------------------------------------------------------------------
(* preprocess_text                                                         *)

\* The last index of the whitespace run that starts at k.
RunEnd(s, k) == FirstNonWs(s, k) - 1

\* re.sub(r'\n\s*\n', '\n[PARAGRAPH BREAK]\n', s), from index k on.
RECURSIVE SubBlankFrom(_, _)
SubBlankFrom(s, k) ==
  IF k > Len(s) THEN <<>>
  ELSE LET e == RunEnd(s, k)
           hit == s[k] = "\n" /\ \E m \in (k + 1)..e : s[m] = "\n"
           last == CHOOSE m \in (k + 1)..e :
                     /\ s[m] = "\n"
                     /\ \A n \in (m + 1)..e : s[n] # "\n"
       IN  IF hit
           THEN <<"\n">> \o MARKER \o <<"\n">> \o SubBlankFrom(s, last + 1)
           ELSE << s[k] >> \o SubBlankFrom(s, k + 1)

SubBlankLines(s) == SubBlankFrom(s, 1)

\* re.sub(r'\n(?![PARAGRAPH BREAK])', ' ', s)
SubNewlines(s) ==
  [k \in 1..Len(s) |->
     IF s[k] = "\n" /\ ~(k < Len(s) /\ s[k + 1] \in BreakClass)
     THEN " " ELSE s[k]]

\* re.sub(r'\s+', ' ', s), from index k on.
RECURSIVE SubWsFrom(_, _)
SubWsFrom(s, k) ==
  IF k > Len(s) THEN <<>>
  ELSE IF s[k] \in Whitespace
       THEN <<" ">> \o SubWsFrom(s, RunEnd(s, k) + 1)
       ELSE << s[k] >> \o SubWsFrom(s, k + 1)

\* The collapse that replaces whitespace two characters at a time.
RECURSIVE SubWsPairsFrom(_, _)
SubWsPairsFrom(s, k) ==
  IF k > Len(s) THEN <<>>
  ELSE IF s[k] \in Whitespace
       THEN <<" ">> \o SubWsPairsFrom(s, IF k < Len(s) /\ s[k + 1] \in Whitespace
                                        THEN k + 2 ELSE k + 1)
       ELSE << s[k] >> \o SubWsPairsFrom(s, k + 1)

SubWhitespace_pairwise(s) == SubWsPairsFrom(s, 1)

SubWhitespace(s) == SubWsFrom(s, 1)

preprocess_text(s) == Strip(SubWhitespace(SubNewlines(SubBlankLines(s))))

----------------------------------------------------------------------------
(* The abbreviation sets.                                                  *)

DefaultAbbreviations ==
  { <<"M","r">>, <<"M","r","s">>, <<"M","s">>, <<"D","r">>,
    <<"P","r","o","f">>, <<"R","e","v">>, <<"H","o","n">>, <<"S","t">>,
    <<"S","r">>, <<"J","r">>, <<"e",".","g">>, <<"i",".","e">>,
    <<"e","t","c">>, <<"v","s">>, <<"a",".","m">>, <<"p",".","m">>,
    <<"U",".","S">>, <<"U",".","K">>, <<"U",".","N">>, <<"P","h",".","D">>,
    <<"M",".","D">>, <<"B",".","A">>, <<"M",".","A">>, <<"B",".","S","c">>,
    <<"M",".","S","c">>, <<"I","n","c">>, <<"L","t","d">>, <<"C","o">>,
    <<"J","a","n">>, <<"F","e","b">>, <<"M","a","r">>, <<"A","p","r">>,
    <<"J","u","n">>, <<"J","u","l">>, <<"A","u","g">>, <<"S","e","p">>,
    <<"S","e","p","t">>, <<"O","c","t">>, <<"N","o","v">>, <<"D","e","c">> }

\* load_abbreviations, line 15: the stripped lines of the file that are
\* not empty.
load_abbreviations(file) ==
  LET lines == Split(file, <<"\n">>)
  IN  { Strip(lines[k]) : k \in { n \in 1..Len(lines) : Strip(lines[n]) # <<>> } }

\* An abbreviations file: the lines aB, a. and Ba, one blank line, and
\* blanks around the last entry.
AbbreviationsFile ==
  <<"a","B","\n","a",".","\n","\n"," ","B","a"," ","\n">>

FileAbbreviations == load_abbreviations(AbbreviationsFile)

----------------------------------------------------------------------------
(* The input texts.                                                        *)

TextHeLeft ==
  <<"H","e"," ","l","e","f","t",".",".","."," ","T","h","e","n"," ","i","t",
    " ","h","a","p","p","e","n","e","d",".">>

TextHePaused ==
  <<"H","e"," ","p","a","u","s","e","d",".",".",".">>

TextDrSmith ==
  <<"D","r","."," ","S","m","i","t","h"," ","w","e","n","t"," ","h","o","m",
    "e",".">>

TextStop ==
  <<"\"","S","t","o","p",",","\""," ","s","h","e"," ","s","a","i","d","."," ",
    "\"","N","o","w",".","\"">>

TextParen ==
  <<"T","h","i","s"," ","i","s"," ","a"," ","s","e","n","t","e","n","c","e",
    " ","w","i","t","h"," ","(","a"," ","p","a","r","e","n","t","h","e","t",
    "i","c","a","l","."," ","S","t","i","l","l"," ","i","n","s","i","d","e",
    ")"," ","a","n","d"," ","d","o","n","e",".">>

TextParas ==
  <<"P","a","r","a"," ","o","n","e",".","\n","\n","P","a","r","a"," ","t","w",
    "o",".">>

\* A file that holds the marker text itself.
TextMarker ==
  <<"x","[","P","A","R","A","G","R","A","P","H"," ","B","R","E","A","K","]",
    "y","[","P","A","R","A","G","R","A","P","H"," ","B","R","E","A","K","]",
    "x">>

TextSoPaused ==
  <<"I","t"," ","i","s"," ","s","o","."," ","H","e"," ","p","a","u","s","e",
    "d",".",".","."," ","o","k",".">>

TextDialogue ==
  <<"\"","G","o",".","\""," ","h","e"," ","s","a","i","d","."," ","T","h","e",
    "n"," ","l","e","f","t",".">>

TextQuestion ==
  <<"G","o","!"," ","N","o","w","?"," ","o","k",".">>

TextPhD ==
  <<"A"," ","P","h",".","D","."," ","i","s"," ","o","k",".">>

\* Runs of blanks and a tab inside a line, a blank-line run, blanks at the end.
TextSpaces ==
  <<"G","o"," ","\t"," "," ","o","n",".","\n"," ","\n","\n","E","n","d",".",
    " "," ">>

\* A quoted exclamation with its attribution, then two more sentences.
TextNoWeGo ==
  <<"\"","N","o","!","\""," ","w","e"," ","g","o","."," ","U","p","!">>

\* The same with a word before the opening quote.
TextSoNoWeGo ==
  <<"S","o"," ","\"","N","o","!","\""," ","w","e"," ","g","o","."," ","U","p",
    "!">>

\* A sentence before the quoted question, and a second paragraph.
TextHiNoWeGo ==
  <<"H","i","!"," ","\"","N","o","?","\""," ","w","e"," ","g","o","."," ","U",
    "p","!","\n","\n","O","k","!">>

ExampleTexts ==
  { TextHeLeft, TextHePaused, TextDrSmith, TextStop, TextParen, TextParas,
    TextMarker, TextSoPaused, TextDialogue, TextQuestion, TextPhD,
    TextSpaces, TextNoWeGo, TextSoNoWeGo, TextHiNoWeGo }

\* The longest text drawn from Alphabet.
MaxLen == 4

Alphabet == {"a", "B", ".", "!", "\"", "(", ")", " ", "\n"}

ShortTexts == UNION { [1..n -> Alphabet] : n \in 0..MaxLen }

----------------------------------------------------------------------------
(* split_into_sentences: the values of one pass of the while loop, as      *)
(* functions of the state at the top of the pass.                          *)

paragraph == paragraphs[para_idx]

char == paragraph[i + 1]

\* current_sentence after line 56.
appended == Append(current_sentence, char)

next_chars ==
  IF i + 1 < Len(paragraph) THEN PySlice(paragraph, i + 1, i + 20) ELSE <<>>

open_quotes == Count(appended, "\"") % 2 # 0

open_parens == Count(appended, "(") > Count(appended, ")")

is_ellipsis ==
  /\ char = "."
  /\ i + 2 < Len(paragraph)
  /\ PySlice(paragraph, i + 1, i + 3) = <<".", ".">>

\* The ellipsis check that skips the two dots without keeping them.
with_dots_lost == appended

\* current_sentence and i after the ellipsis check (lines 69-72).
with_dots ==
  IF is_ellipsis THEN appended \o PySlice(paragraph, i + 1, i + 3)
  ELSE appended

\* The skip of line 72 that takes three characters instead of two.
after_dots_three_skipped == IF is_ellipsis THEN i + 3 ELSE i

after_dots == IF is_ellipsis THEN i + 2 ELSE i

last_word == LastWord(with_dots)

\* is_abbr with the look-up in the abbreviation set left out.
is_abbr_without_set ==
  /\ char = "."
  /\ last_word # <<>>
  /\ \/ MatchMultiPart(last_word) \/ MatchLetterPairs(last_word)
     \/ /\ Len(last_word) = 2
        /\ last_word[1] \in Letter
        /\ last_word[2] = "."
     \/ /\ after_dots + 2 < Len(paragraph)
        /\ paragraph[after_dots + 2] \in Letter
        /\ paragraph[after_dots + 3] = "."

\* The abbreviation check run at every terminator, not at periods only.
is_abbr_any_terminator ==
  /\ last_word # <<>>
  /\ IF MatchMultiPart(last_word) \/ MatchLetterPairs(last_word) THEN TRUE
     ELSE IF /\ Len(last_word) = 2
             /\ last_word[1] \in Letter
             /\ last_word[2] = "."
          THEN TRUE
     ELSE IF /\ after_dots + 2 < Len(paragraph)
             /\ paragraph[after_dots + 2] \in Letter
             /\ paragraph[after_dots + 3] = "."
          THEN TRUE
     ELSE \/ RStripPeriods(last_word) \in abbreviations
          \/ last_word \in abbreviations

is_abbr ==
  /\ char = "."
  /\ last_word # <<>>
  /\ IF MatchMultiPart(last_word) \/ MatchLetterPairs(last_word) THEN TRUE
     ELSE IF /\ Len(last_word) = 2
             /\ last_word[1] \in Letter
             /\ last_word[2] = "."
          THEN TRUE
     ELSE IF /\ after_dots + 2 < Len(paragraph)
             /\ paragraph[after_dots + 2] \in Letter
             /\ paragraph[after_dots + 3] = "."
          THEN TRUE
     ELSE \/ RStripPeriods(last_word) \in abbreviations
          \/ last_word \in abbreviations

\* The test of line 105 without the parentheses.
sentence_end_parens_ignored ==
  /\ ~open_quotes
  /\ ~is_abbr
  /\ (~is_ellipsis \/ (is_ellipsis /\ MatchUpperStart(LStrip(next_chars))))

\* The test of line 105 with every ellipsis taken as an end.
sentence_end_any_ellipsis ==
  /\ ~open_quotes
  /\ ~open_parens
  /\ ~is_abbr

sentence_end ==
  /\ ~open_quotes
  /\ ~open_parens
  /\ ~is_abbr
  /\ (~is_ellipsis \/ (is_ellipsis /\ MatchUpperStart(LStrip(next_chars))))

\* The pattern of line 109 with nothing but one clause allowed after the
\* closing quote: no terminator between that quote and the current one.
dialogue_attribution_one_clause ==
  /\ SearchDialogue(with_dots)
  /\ \E q \in 1..Len(with_dots) :
       /\ with_dots[q] = "\""
       /\ Count(SubSeq(with_dots, 1, q), "\"") = 2
       /\ \A m \in (q + 1)..(Len(with_dots) - 1) :
            with_dots[m] \notin Terminators

\* The pattern of line 109 searched from every position of the buffer.
dialogue_attribution_unanchored ==
  \E k \in 1..Len(with_dots) :
    SearchDialogue(SubSeq(with_dots, k, Len(with_dots)))

dialogue_attribution == SearchDialogue(with_dots)

\* The flush without its test for an empty buffer.
flushed_unguarded == Append(sentences, Strip(current_sentence))

\* The flush left out.
flushed_dropped == sentences

\* sentences after the flush of lines 120-121.
flushed ==
  IF Strip(current_sentence) # <<>>
  THEN Append(sentences, Strip(current_sentence))
  ELSE sentences

----------------------------------------------------------------------------
(* The program: main() from its start to the status it ends with.          *)

Init ==
  /\ raw = <<>>
  /\ abbreviations = {}
  /\ text = <<>>
  /\ paragraphs = <<>>
  /\ para_idx = 1
  /\ i = 0
  /\ current_sentence = <<>>
  /\ sentences = <<>>
  /\ pc = "check"
  /\ input_file = "unchecked"
  /\ abbr_file = "unopened"
  /\ output_file = "untouched"
  /\ rows = <<>>
  /\ status = <<>>

\* main, lines 149-152: the input file is not there.
InputMissing ==
  /\ pc = "check"
  /\ input_file' = "missing"
  /\ status' = <<1>>
  /\ pc' = "exit"
  /\ UNCHANGED <<raw, abbreviations, text, paragraphs, para_idx, i,
                 current_sentence, sentences, abbr_file, output_file, rows>>

\* main, line 150: the input file is there.
InputFound ==
  /\ pc = "check"
  /\ input_file' = "found"
  /\ pc' = "load"
  /\ UNCHANGED <<raw, abbreviations, text, paragraphs, para_idx, i,
                 current_sentence, sentences, abbr_file, output_file, rows,
                 status>>

\* main, line 155, and load_abbreviations, lines 13-15.
LoadAbbreviations ==
  /\ pc = "load"
  /\ abbr_file' = "present"
  /\ abbreviations' = FileAbbreviations
  /\ pc' = "read"
  /\ UNCHANGED <<raw, text, paragraphs, para_idx, i, current_sentence,
                 sentences, input_file, output_file, rows, status>>

\* The missing abbreviations file taken as the end of the run.
LoadDefaultAbbreviations_fatal ==
  /\ pc = "load"
  /\ abbr_file' = "missing"
  /\ status' = <<1>>
  /\ pc' = "exit"
  /\ UNCHANGED <<raw, abbreviations, text, paragraphs, para_idx, i,
                 current_sentence, sentences, input_file, output_file, rows>>

\* load_abbreviations, lines 16-24: no such file, the default set.
LoadDefaultAbbreviations ==
  /\ pc = "load"
  /\ abbr_file' = "missing"
  /\ abbreviations' = DefaultAbbreviations
  /\ pc' = "read"
  /\ UNCHANGED <<raw, text, paragraphs, para_idx, i, current_sentence,
                 sentences, input_file, output_file, rows, status>>

\* load_abbreviations, lines 13-16: an error that is no FileNotFoundError
\* leaves main() uncaught, and the run ends with status 1.
LoadAbbreviationsRaises ==
  /\ pc = "load"
  /\ abbr_file' = "unreadable"
  /\ status' = <<1>>
  /\ pc' = "raised"
  /\ UNCHANGED <<raw, abbreviations, text, paragraphs, para_idx, i,
                 current_sentence, sentences, input_file, output_file, rows>>

\* main, lines 157-160.
ReadInput ==
  /\ pc = "read"
  /\ \E t \in ExampleTexts \cup ShortTexts : raw' = t
  /\ input_file' = "read"
  /\ pc' = "main"
  /\ UNCHANGED <<abbreviations, text, paragraphs, para_idx, i,
                 current_sentence, sentences, abbr_file, output_file, rows,
                 status>>

\* The handler of lines 161-163 without its return.
ReadFails_continues ==
  /\ pc = "read"
  /\ input_file' = "unreadable"
  /\ pc' = "main"
  /\ UNCHANGED <<raw, abbreviations, text, paragraphs, para_idx, i,
                 current_sentence, sentences, abbr_file, output_file, rows,
                 status>>

\* main, lines 161-163.
ReadFails ==
  /\ pc = "read"
  /\ input_file' = "unreadable"
  /\ status' = <<1>>
  /\ pc' = "exit"
  /\ UNCHANGED <<raw, abbreviations, text, paragraphs, para_idx, i,
                 current_sentence, sentences, abbr_file, output_file, rows>>

\* main, line 166.
Preprocess ==
  /\ pc = "main"
  /\ text' = preprocess_text(raw)
  /\ pc' = "split"
  /\ UNCHANGED <<raw, abbreviations, paragraphs, para_idx, i,
                 current_sentence, sentences>>
  /\ UNCHANGED io

\* split_into_sentences, lines 42-46.
SplitParagraphs ==
  /\ pc = "split"
  /\ sentences' = <<>>
  /\ current_sentence' = <<>>
  /\ paragraphs' = Split(text, MARKER)
  /\ para_idx' = 1
  /\ pc' = "para"
  /\ UNCHANGED <<raw, abbreviations, text, i>>
  /\ UNCHANGED io

\* Lines 48-50: a paragraph of whitespace only is passed over.
SkipParagraph ==
  /\ pc = "para"
  /\ para_idx <= Len(paragraphs)
  /\ Strip(paragraph) = <<>>
  /\ para_idx' = para_idx + 1
  /\ UNCHANGED <<raw, abbreviations, text, paragraphs, i,
                 current_sentence, sentences, pc>>
  /\ UNCHANGED io

\* Lines 48-53.
BeginParagraph ==
  /\ pc = "para"
  /\ para_idx <= Len(paragraphs)
  /\ Strip(paragraph) # <<>>
  /\ i' = 0
  /\ pc' = "scan"
  /\ UNCHANGED <<raw, abbreviations, text, paragraphs, para_idx,
                 current_sentence, sentences>>
  /\ UNCHANGED io

\* Lines 54-117: one pass of the while loop.
ScanChar ==
  /\ pc = "scan"
  /\ i < Len(paragraph)
  /\ IF char \in Terminators /\ sentence_end /\ ~dialogue_attribution
     THEN /\ sentences' = Append(sentences, Strip(with_dots))
          /\ current_sentence' = <<>>
     ELSE /\ sentences' = sentences
          /\ current_sentence' = with_dots
  /\ i' = after_dots + 1
  /\ UNCHANGED <<raw, abbreviations, text, paragraphs, para_idx, pc>>
  /\ UNCHANGED io

\* Lines 119-126: the flush and the marker, once the while loop is left.
EndParagraph ==
  /\ pc = "scan"
  /\ i >= Len(paragraph)
  /\ sentences' = IF paragraph # paragraphs[Len(paragraphs)]
                   THEN Append(flushed, MARKER)
                   ELSE flushed
  /\ current_sentence' = IF Strip(current_sentence) # <<>>
                          THEN <<>> ELSE current_sentence
  /\ para_idx' = para_idx + 1
  /\ pc' = "para"
  /\ UNCHANGED <<raw, abbreviations, text, paragraphs, i>>
  /\ UNCHANGED io

\* Line 128.
Return ==
  /\ pc = "para"
  /\ para_idx > Len(paragraphs)
  /\ pc' = "done"
  /\ UNCHANGED <<raw, abbreviations, text, paragraphs, para_idx, i,
                 current_sentence, sentences>>
  /\ UNCHANGED io

\* main, lines 170-172 and 177, and write_to_csv: a row for each token.
WriteOutput ==
  /\ pc = "done"
  /\ output_file' = "written"
  /\ rows' = sentences
  /\ status' = <<0>>
  /\ pc' = "exit"
  /\ UNCHANGED <<raw, abbreviations, text, paragraphs, para_idx, i,
                 current_sentence, sentences, input_file, abbr_file>>

\* main, lines 173-175.
WriteFails ==
  /\ pc = "done"
  /\ output_file' = "unwritable"
  /\ status' = <<1>>
  /\ pc' = "exit"
  /\ UNCHANGED <<raw, abbreviations, text, paragraphs, para_idx, i,
                 current_sentence, sentences, input_file, abbr_file, rows>>

Next ==
  \/ InputMissing
  \/ InputFound
  \/ LoadAbbreviations
  \/ LoadDefaultAbbreviations
  \/ LoadAbbreviationsRaises
  \/ ReadInput
  \/ ReadFails
  \/ Preprocess
  \/ SplitParagraphs
  \/ SkipParagraph
  \/ BeginParagraph
  \/ ScanChar
  \/ EndParagraph
  \/ Return
  \/ WriteOutput
  \/ WriteFails

Spec == Init /\ [][Next]_vars

----------------------------------------------------------------------------
(* What the claims speak of, stated apart from the code's own tests.       *)

Scanning == pc = "scan" /\ i < Len(paragraph)

\* The buffer holds an even number of double quotes and no unclosed "(".
Balanced(s) ==
  /\ Count(s, "\"") % 2 = 0
  /\ Count(s, "(") <= Count(s, ")")

\* s begins, after optional whitespace, with an upper-case letter.
BeginsUpper(s) ==
  \E k \in 1..Len(s) :
    /\ s[k] \in Upper
    /\ \A m \in 1..(k - 1) : s[m] \in Whitespace

\* The scan stands on the first of three consecutive periods.
AtEllipsis ==
  /\ Scanning
  /\ i + 3 <= Len(paragraph)
  /\ SubSeq(paragraph, i + 1, i + 3) = <<".", ".", ".">>

\* The paragraph after the three dots of the ellipsis.
AfterEllipsis == SubSeq(paragraph, i + 4, Len(paragraph))

\* This pass emits the trimmed buffer b as a token and resets the buffer.
Emits(b) ==
  /\ sentences' = Append(sentences, Strip(b))
  /\ current_sentence' = <<>>

\* text holds the marker text.
HoldsMarker(s) ==
  \E k \in 1..(Len(s) - Len(MARKER) + 1) :
    SubSeq(s, k, k + Len(MARKER) - 1) = MARKER

\* The number of blank-line-separated blocks of s: a block starts at a
\* character that is no whitespace and follows either nothing but
\* whitespace or a whitespace run with two newlines or more.
NumBlocks(s) ==
  Cardinality(
    { k \in 1..Len(s) :
        /\ s[k] \notin Whitespace
        /\ LET before == { m \in 1..(k - 1) : s[m] \notin Whitespace }
               prev == IF before = {} THEN 0
                       ELSE CHOOSE m \in before : \A n \in before : n <= m
           IN  \/ prev = 0
               \/ Cardinality({ m \in (prev + 1)..(k - 1) : s[m] = "\n" }) >= 2 })

NumMarkers(toks) == Cardinality({ k \in 1..Len(toks) : toks[k] = MARKER })

----------------------------------------------------------------------------
(* C1: an ellipsis that follows a word, met with balanced quotes and       *)
(* closed parentheses, where no abbreviation rule and no dialogue          *)
(* attribution applies, and whose following text begins (after optional    *)
(* whitespace) with an upper-case letter, ends the sentence: the buffer    *)
(* through the three dots is emitted as a token.                           *)
C1_EllipsisBeforeCapitalSplits ==
  [][ ( /\ AtEllipsis
        /\ current_sentence # <<>>
        /\ current_sentence[Len(current_sentence)] \in Letter
        /\ Balanced(appended)
        /\ ~is_abbr
        /\ ~dialogue_attribution
        /\ BeginsUpper(AfterEllipsis) )
      => Emits(current_sentence \o <<".", ".", ".">>) ]_vars

(* C2: a period after an ordinary word of letters that is not in the       *)
(* abbreviation set, is not a two-character word and is not followed by a  *)
(* letter and a period, met with balanced quotes, closed parentheses and   *)
(* no dialogue attribution, is a real boundary: the trimmed buffer is      *)
(* emitted and the buffer is reset.                                        *)
C2_PeriodAfterOrdinaryWordSplits ==
  [][ ( /\ Scanning
        /\ char = "."
        /\ ~AtEllipsis
        /\ LET w == LastWord(appended)
           IN  /\ Len(w) > 2
               /\ \A m \in 1..(Len(w) - 1) : w[m] \in Letter
               /\ SubSeq(w, 1, Len(w) - 1) \notin abbreviations
               /\ w \notin abbreviations
        /\ ~( /\ i + 3 <= Len(paragraph)
              /\ paragraph[i + 2] \in Letter
              /\ paragraph[i + 3] = "." )
        /\ Balanced(appended)
        /\ ~SearchDialogue(appended) )
      => Emits(appended) ]_vars

(* C3: the paragraph "Stop," she said. "Now." (with its double quotes)     *)
(* yields exactly two tokens, the first through the attribution's period   *)
(* and the second the second quoted utterance.                             *)
C3_AttributionThenQuote ==
  (pc = "done" /\ raw = TextStop)
    => sentences = << SubSeq(TextStop, 1, 17), SubSeq(TextStop, 19, 24) >>

(* C4: for a raw text that does not hold the marker text, the number of    *)
(* marker tokens in the result is the number of blank-line-separated       *)
(* blocks minus one, and zero when there is at most one block.             *)
C4_MarkersAreBlocksMinusOne ==
  (pc = "done" /\ ~HoldsMarker(raw))
    => NumMarkers(sentences) =
         IF NumBlocks(raw) = 0 THEN 0 ELSE NumBlocks(raw) - 1

(* C5: at a terminator where the buffer, with the character just appended, *)
(* holds an odd number of double quotes or more "(" than ")", no token is  *)
(* emitted; every token emitted by a pass of the scan holds an even number *)
(* of double quotes and no more "(" than ")"; and the paragraph with the   *)
(* parenthetical is one token.                                             *)
C5_QuoteParenGuard ==
  [][ /\ (Scanning /\ char \in Terminators /\ ~Balanced(appended))
         => sentences' = sentences
      /\ (Scanning /\ sentences' # sentences)
         => /\ Len(sentences') = Len(sentences) + 1
            /\ Balanced(sentences'[Len(sentences')])
      /\ (pc' = "done" /\ raw = TextParen) => sentences' = << TextParen >>
    ]_vars

\* A terminator has just been passed over with an unbalanced buffer, where
\* the ellipsis, abbreviation and dialogue checks did not object.
C5_Witness ==
  /\ pc = "scan"
  /\ i >= 1
  /\ paragraph[i] \in Terminators
  /\ current_sentence # <<>>
  /\ current_sentence[Len(current_sentence)] = paragraph[i]
  /\ ~Balanced(current_sentence)
  /\ LET w == LastWord(current_sentence)
     IN  /\ Len(w) = 4
         /\ w[1] = "("
         /\ w[2] \in Letter
         /\ w[3] \in Letter
         /\ RStripPeriods(w) \notin abbreviations
  /\ ~SearchDialogue(current_sentence)

C7_TokensAreTrimmed ==
  \A k \in 1..Len(sentences) :
    /\ sentences[k] # <<>>
    /\ sentences[k][1] \notin Whitespace
    /\ sentences[k][Len(sentences[k])] \notin Whitespace

\* The end of a paragraph is reached with a buffer of whitespace only,
\* after a token was emitted.
C7_Witness ==
  /\ pc = "scan"
  /\ i >= Len(paragraph)
  /\ sentences # <<>>
  /\ current_sentence # <<>>
  /\ Strip(current_sentence) = <<>>

NotWhitespace(c) == c \notin Whitespace

\* s with its whitespace taken out.
Squeeze(s) == SelectSeq(s, NotWhitespace)

\* The concatenation of the texts of ss.
RECURSIVE Flatten(_)
Flatten(ss) == IF ss = <<>> THEN <<>> ELSE Head(ss) \o Flatten(Tail(ss))

NotMarker(t) == t # MARKER

(* C8: the tokens of a paragraph are followed by exactly one marker token  *)
(* whenever a later non-empty paragraph exists, so that the tokens of two  *)
(* consecutive non-empty paragraphs are separated by one marker; the text  *)
(* of two paragraphs Para one. and Para two. yields the two sentences with *)
(* one marker between them.                                                *)
C8_MarkerBetweenParagraphs ==
  [][ /\ ( /\ pc = "scan"
           /\ i >= Len(paragraph)
           /\ \E q \in (para_idx + 1)..Len(paragraphs) :
                Strip(paragraphs[q]) # <<>> )
         => /\ sentences' # <<>>
            /\ sentences'[Len(sentences')] = MARKER
      /\ (pc' = "done" /\ raw = TextParas)
         => sentences' = << SubSeq(TextParas, 1, 9), MARKER,
                            SubSeq(TextParas, 12, 20) >>
    ]_vars

(* C9: at every step the sentence tokens emitted so far, followed by the   *)
(* buffer, hold the characters of the paragraphs scanned so far and of the *)
(* scanned prefix of the current one, in order, whitespace aside.          *)
C9_NoCharacterLost ==
  Squeeze(Flatten(SelectSeq(sentences, NotMarker)) \o current_sentence)
    = Squeeze(Flatten(SubSeq(paragraphs, 1, para_idx - 1))
                \o (IF pc = "scan" THEN SubSeq(paragraph, 1, i) ELSE <<>>))

\* An ellipsis has just been consumed in a paragraph that has emitted a
\* token already.
C9_Witness ==
  /\ pc = "scan"
  /\ i >= 4
  /\ SubSeq(paragraph, i - 2, i) = <<".", ".", ".">>
  /\ Len(current_sentence) >= 4
  /\ SubSeq(current_sentence, Len(current_sentence) - 2,
            Len(current_sentence)) = <<".", ".", ".">>
  /\ sentences # <<>>
  /\ sentences[Len(sentences)] # MARKER

(* C10: an ellipsis that is not followed, after optional whitespace, by an *)
(* upper-case letter emits no token, and its three dots enter the buffer   *)
(* together; the paragraph He paused... is one token.                      *)
C10_EllipsisWithoutCapitalContinues ==
  [][ /\ (AtEllipsis /\ ~BeginsUpper(AfterEllipsis))
         => /\ sentences' = sentences
            /\ current_sentence' = current_sentence \o <<".", ".", ".">>
            /\ i' = i + 3
      /\ (pc' = "done" /\ raw = TextHePaused) => sentences' = << TextHePaused >>
    ]_vars

\* An ellipsis followed by a lower-case word has just been consumed with a
\* balanced buffer.
C10_Witness ==
  /\ pc = "scan"
  /\ i >= 4
  /\ i + 2 <= Len(paragraph)
  /\ SubSeq(paragraph, i - 2, i) = <<".", ".", ".">>
  /\ paragraph[i - 3] \in Letter
  /\ paragraph[i + 1] \in Whitespace
  /\ paragraph[i + 2] \in Lower
  /\ Balanced(current_sentence)
  /\ SubSeq(current_sentence, Len(current_sentence) - 2,
            Len(current_sentence)) = <<".", ".", ".">>

(* C11: preprocess_text is idempotent: normalizing the normalized text     *)
(* returns it unchanged, also when a blank-line run put a marker into it   *)
(* and when the text is empty.                                             *)
C11_PreprocessIdempotent ==
  pc = "split" => preprocess_text(text) = text

\* A text with a blank-line run has been normalized: it holds the marker
\* and differs from what was read.
C11_Witness ==
  /\ pc = "split"
  /\ HoldsMarker(text)
  /\ ~HoldsMarker(raw)
  /\ \E k \in 1..Len(text) : text[k] = " "

\* The paragraphs that hold more than whitespace, trimmed, in their order.
RECURSIVE TrimmedParagraphs(_)
TrimmedParagraphs(ps) ==
  IF ps = <<>> THEN <<>>
  ELSE IF Strip(Head(ps)) = <<>> THEN TrimmedParagraphs(Tail(ps))
       ELSE << Strip(Head(ps)) >> \o TrimmedParagraphs(Tail(ps))

NoTerminator(s) == \A k \in 1..Len(s) : s[k] \notin Terminators

\* split_into_sentences has been called and has not returned.
InSplit == pc \in {"split", "para", "scan"}

\* The statements of split_into_sentences.
SplitStep ==
  \/ SplitParagraphs
  \/ SkipParagraph
  \/ BeginParagraph
  \/ ScanChar
  \/ EndParagraph
  \/ Return

\* What is left to do of the two loops: the paragraphs from the current
\* one on, each weighing more than any scan, less the scan done so far.
Remaining ==
  (Len(paragraphs) - para_idx + 1) * (Len(text) + 3)
    - (IF pc = "scan" THEN i + 1 ELSE 0)

(* C12: the segmentation is total and terminating: every pass of the scan  *)
(* moves the position forward and never past the end of the paragraph,     *)
(* every statement of split_into_sentences, for every text and             *)
(* abbreviation set, can run and leaves less to do, so that the call       *)
(* returns its token list, and in a text without '.', '!' and '?' each     *)
(* paragraph that is not blank becomes exactly one token.                  *)
C12_ScanAdvancesAndReturns ==
  /\ [](InSplit => ENABLED SplitStep)
  /\ [][ /\ Scanning => (i' > i /\ i' <= Len(paragraph) /\ pc' = "scan")
         /\ (pc \in {"para", "scan"})
              => \/ pc' = "done"
                 \/ /\ pc' \in {"para", "scan"}
                    /\ Remaining' < Remaining
                    /\ Remaining' >= 0
         /\ (pc' = "done" /\ NoTerminator(text))
              => SelectSeq(sentences', NotMarker) = TrimmedParagraphs(paragraphs)
       ]_vars

\* The call has returned one token for a paragraph without a terminator.
C12_Witness ==
  /\ pc = "done"
  /\ text # <<>>
  /\ NoTerminator(text)
  /\ sentences = << text >>

\* preprocess_text, split_into_sentences or write_to_csv has been called.
CoreCalled ==
  \/ pc \in {"main", "split", "para", "scan", "done"}
  \/ output_file # "untouched"
  \/ text # <<>>
  \/ paragraphs # <<>>
  \/ sentences # <<>>
  \/ rows # <<>>

(* C13: a missing input file, an unreadable input file and an unwritable   *)
(* output file each end main with a non-zero status; the text is           *)
(* normalized, segmented and written only after the input file has been    *)
(* read, and never when it is missing or unreadable.                       *)
C13_IOFailureEndsNonZero ==
  /\ input_file \in {"missing", "unreadable"}
       => pc = "exit" /\ status = <<1>> /\ ~CoreCalled
  /\ output_file = "unwritable" => pc = "exit" /\ status = <<1>>
  /\ CoreCalled => input_file = "read"
  /\ pc \in {"exit", "raised"} <=> status # <<>>

\* The input file was found, the abbreviations were loaded, and the read
\* of the input failed.
C13_Witness ==
  /\ pc = "exit"
  /\ input_file = "unreadable"
  /\ abbr_file \in {"present", "missing"}
  /\ status = <<1>>

(* C14: a missing abbreviation file is not fatal: load_abbreviations       *)
(* returns the default set of forty abbreviations from Mr to Dec, the run  *)
(* goes on, and when the input is read and the output written main         *)
(* returns 0 with a row for each token.                                    *)
C14_MissingAbbreviationFileNotFatal ==
  abbr_file = "missing"
    => /\ abbreviations = DefaultAbbreviations
       /\ Cardinality(abbreviations) = 40
       /\ {<<"M","r">>, <<"M","r","s">>, <<"M","s">>, <<"D","r">>,
           <<"N","o","v">>, <<"D","e","c">>} \subseteq abbreviations
       /\ pc # "raised"
       /\ status = <<1>>
            => input_file = "unreadable" \/ output_file = "unwritable"
       /\ (pc = "exit" /\ input_file = "read" /\ output_file = "written")
            => status = <<0>> /\ rows = sentences

\* Without an abbreviation file a text was segmented with the default set
\* and written, and main returned 0.
C14_Witness ==
  /\ abbr_file = "missing"
  /\ pc = "exit"
  /\ status = <<0>>
  /\ output_file = "written"
  /\ raw = TextDrSmith
  /\ rows = << TextDrSmith >>

\* s begins, after optional whitespace, with a double quote, one or more
\* characters that are no quote, a terminator, a closing double quote,
\* optional whitespace and a lower-case letter.
BeginsWithDialogue(s) ==
  \E a \in 1..Len(s), q \in 1..Len(s), b \in 1..Len(s) :
    /\ \A m \in 1..(a - 1) : s[m] \in Whitespace
    /\ s[a] = "\""
    /\ q >= a + 3
    /\ \A m \in (a + 1)..(q - 2) : s[m] # "\""
    /\ s[q - 1] \in Terminators
    /\ s[q] = "\""
    /\ b > q
    /\ \A m \in (q + 1)..(b - 1) : s[m] \in Whitespace
    /\ s[b] \in Lower

(* C15: at a terminator that the quote and parenthesis guard, the ellipsis *)
(* rule and the abbreviation rule let through, the boundary is suppressed  *)
(* if and only if the buffer begins with a quoted clause followed by a     *)
(* lower-case letter; the same pattern later in the buffer suppresses      *)
(* nothing, and the buffer is emitted.                                     *)
C15_DialogueGuardAnchored ==
  [][ (Scanning /\ char \in Terminators /\ sentence_end)
        => /\ BeginsWithDialogue(with_dots)
                <=> (sentences' = sentences /\ current_sentence' = with_dots)
           /\ ~BeginsWithDialogue(with_dots) => Emits(with_dots)
    ]_vars

\* An exclamation mark met with a balanced buffer that begins with a
\* quoted clause and its attribution has emitted nothing.
C15_Witness ==
  /\ pc = "scan"
  /\ i >= 1
  /\ paragraph[i] = "!"
  /\ current_sentence = SubSeq(paragraph, 1, i)
  /\ Balanced(current_sentence)
  /\ BeginsWithDialogue(current_sentence)
  /\ sentences = <<>>

(* C16: the abbreviation check applies to '.' only: an '!' or '?' met with *)
(* an even number of double quotes, no unclosed parenthesis and a buffer   *)
(* that does not begin with a dialogue attribution always ends the         *)
(* sentence, whatever the abbreviation set, the word before it and the     *)
(* text after it: the buffer is emitted and reset.                         *)
C16_ExclamationAndQuestionAlwaysEnd ==
  [][ (/\ Scanning
       /\ char \in {"!", "?"}
       /\ Balanced(appended)
       /\ ~BeginsWithDialogue(appended))
        => Emits(appended) /\ i' = i + 1
    ]_vars

\* A token has just been emitted at an '!' that follows a word of three
\* letters.
C16_Witness ==
  /\ pc = "scan"
  /\ i >= 4
  /\ paragraph[i] = "!"
  /\ \A m \in (i - 3)..(i - 1) : paragraph[m] \in Letter
  /\ current_sentence = <<>>
  /\ sentences # <<>>
  /\ LET last == sentences[Len(sentences)]
     IN  Len(last) >= 4 /\ SubSeq(last, Len(last) - 3, Len(last))
                             = SubSeq(paragraph, i - 3, i)

(* C17: each paragraph's scan starts with an empty buffer: when the first  *)
(* character of a paragraph is about to be appended, the buffer holds      *)
(* nothing of the paragraph before, not even whitespace.                   *)
C17_FreshBufferPerParagraph ==
  (pc = "scan" /\ i = 0) => current_sentence = <<>>

\* No newline of s is followed, after optional whitespace, by a newline.
NoBlankLine(s) ==
  \A j \in 1..Len(s), k \in 1..Len(s) :
    (j < k /\ s[j] = "\n" /\ s[k] = "\n")
      => \E m \in (j + 1)..(k - 1) : s[m] \notin Whitespace

\* The words of s joined by single spaces: every character that is no
\* whitespace, with one space before it where whitespace came before it
\* and a word before that.
JoinWords(s) ==
  Flatten([k \in 1..Len(s) |->
            IF s[k] \in Whitespace THEN <<>>
            ELSE IF /\ k > 1
                    /\ s[k - 1] \in Whitespace
                    /\ \E m \in 1..(k - 1) : s[m] \notin Whitespace
                 THEN <<" ", s[k]>>
                 ELSE << s[k] >>])

\* The whitespace of s is single spaces between other characters.
SingleSpaced(s) ==
  \A k \in 1..Len(s) :
    s[k] \in Whitespace
      => /\ s[k] = " "
         /\ 1 < k /\ k < Len(s)
         /\ s[k + 1] \notin Whitespace

(* C18: the result of preprocess_text holds no whitespace but single       *)
(* spaces, none at its ends and no two in a row; a newline outside a       *)
(* blank-line run becomes one space whatever follows it; an empty or       *)
(* whitespace-only text gives the empty string.                            *)
C18_NormalizedWhitespace ==
  pc = "split"
    => /\ SingleSpaced(text)
       /\ NoBlankLine(raw) => text = JoinWords(raw)
       /\ Squeeze(raw) = <<>> => text = <<>>

\* t ends s.
IsSuffix(t, s) ==
  /\ Len(t) <= Len(s)
  /\ SubSeq(s, Len(s) - Len(t) + 1, Len(s)) = t

(* C19: the dialogue suppression is sticky: once the buffer begins with a  *)
(* dialogue attribution, every further pass of the scan emits nothing and  *)
(* leaves a buffer that still begins with it, and the flush at the end of  *)
(* the paragraph emits the buffer, from its opening quote to the end of    *)
(* the paragraph, as one token.                                            *)
C19_DialogueSuppressionSticky ==
  [][ (pc = "scan" /\ BeginsWithDialogue(current_sentence))
        => \/ /\ pc' = "scan"
              /\ sentences' = sentences
              /\ BeginsWithDialogue(current_sentence')
           \/ /\ pc' = "para"
              /\ \E t \in {Strip(current_sentence)} :
                   /\ t[1] = "\""
                   /\ IsSuffix(t, Strip(paragraph))
                   /\ sentences' \in {Append(sentences, t),
                                      Append(Append(sentences, t), MARKER)}
    ]_vars

\* A paragraph that begins with a dialogue attribution and holds two
\* terminators after it has been returned as one token.
C19_Witness ==
  /\ pc = "done"
  /\ sentences = << text >>
  /\ BeginsWithDialogue(text)
  /\ Balanced(text)
  /\ Cardinality({ k \in 1..Len(text) : text[k] \in Terminators }) >= 3

(* C20: every marker token of the token list follows a sentence token:     *)
(* the list never starts with a marker and never holds two markers in a    *)
(* row.                                                                    *)
C20_MarkerFollowsSentence ==
  \A k \in 1..Len(sentences) :
    sentences[k] = MARKER => (k > 1 /\ sentences[k - 1] # MARKER)

\* A list with a marker has been returned for a text with a blank
\* paragraph, which was skipped.
C20_Witness ==
  /\ pc = "done"
  /\ NumMarkers(sentences) >= 1
  /\ \E k \in 1..Len(paragraphs) : Strip(paragraphs[k]) = <<>>

====
